---- MODULE Spec2Model ----
(***************************************************************************)
(* Model of the Si115X light-sensor driver                                 *)
(* (hardware/arduino/lt_mk_1/Si115X.cpp): the bus read primitive, the      *)
(* command protocol (send_command), the parameter sub-protocol (param_set, *)
(* param_query) and the result decoder (read_output), run against a model  *)
(* of the device's register file.  Every bus transaction is one step; the  *)
(* device takes its own steps between the driver's transactions.           *)
(***************************************************************************)
EXTENDS Integers, Naturals, Sequences, FiniteSets, TLC

VARIABLES
  \* ---- device register file (the peer on the bus)
  ctr,            \* CMD_CTR field of RESPONSE_0
  err,            \* CMD_ERR flag of RESPONSE_0
  pending,        \* <<byte>> written to COMMAND and not yet processed, or <<>>
  hostin0,        \* HOSTIN_0, the staging register
  param,          \* the indirect parameter table
  response1,      \* RESPONSE_1, the result register
  \* ---- the running call
  pc,             \* position of the driver
  op,             \* function being executed
  code, force,    \* arguments of send_command
  loc, val,       \* arguments of param_set / param_query
  ret,            \* value returned by the call (meaningful at pc = "done")
  \* ---- locals of send_command
  initial_read, initial_cmd_ctr, i, response, cmd_ctr,
  \* ---- locals of param_set / param_query
  cmmnd_ctr, r, result,
  \* ---- locals of read_output
  data, reading,
  \* ---- observations of the running call (what happened on the bus)
  reads,          \* outcomes of the status reads of the running send_command,
                  \* in order (-1: the read failed)
  nCmdWrites,     \* writes to the COMMAND register by the running send_command
  assigned,       \* fields of the LightReading that read_output assigned
  prev,           \* the call that returned last: <<op, loc, val>>
  bus,            \* latest bus transactions of the running param_set or
                  \* param_query: <<"r" or "w", register, byte or -1>>
  iters,          \* loop iterations completed by the running param_set or
                  \* param_query
  clean           \* no bus failure and no device error since prev started

devVars  == <<ctr, err, pending, hostin0, param, response1>>
callVars == <<pc, op, code, force, loc, val, ret>>
scVars   == <<initial_read, initial_cmd_ctr, i, response, cmd_ctr>>
psVars   == <<cmmnd_ctr, r, result>>
roVars   == <<data, reading>>
obsVars  == <<reads, nCmdWrites, assigned, prev, bus, iters, clean>>
vars == <<devVars, callVars, scVars, psVars, roVars, obsVars>>

----------------------------------------------------------------------------
(* Bounds and samples                                                      *)

\* Retry budget of send_command.  The source sets 10000 (Si115X.cpp:122);
\* the model runs the same loop with a small budget.
MAX_RETRIES == 3

\* Command codes passed to send_command.
Codes == {1, 17}
\* Parameter locations and values passed to param_set / param_query.
Locs == {1, 63}
Vals == {0, 255}
\* Every value of the uint8_t location argument.
AllLocations == 0..255
\* Bytes the output registers HOSTOUT_0..3 may hold.
Bytes == {0, 1, 255}
\* Indeterminate contents of an uninitialised LightReading field.
Garbage == {-7, 4660}
\* Error codes the device reports in the counter field (0x0..0x3).
ErrCodes == 0..3
\* Number of bus transactions of a parameter call that are kept in view.
BusWindow == 4
\* Loop iterations of a parameter call are counted up to this number.
IterCap == 17

----------------------------------------------------------------------------
(* Bit arithmetic on bytes                                                 *)

RECURSIVE BitAndN(_, _, _)
BitAndN(a, b, n) ==
  IF n = 0 THEN 0
  ELSE (IF a % 2 = 1 /\ b % 2 = 1 THEN 1 ELSE 0)
       + 2 * BitAndN(a \div 2, b \div 2, n - 1)

\* a & b on 8-bit operands
BitAnd(a, b) == BitAndN(a, b, 8)

RECURSIVE BitOrN(_, _, _)
BitOrN(a, b, n) ==
  IF n = 0 THEN 0
  ELSE (IF a % 2 = 1 \/ b % 2 = 1 THEN 1 ELSE 0)
       + 2 * BitOrN(a \div 2, b \div 2, n - 1)

\* a | b on 8-bit operands
BitOr(a, b) == BitOrN(a, b, 8)

\* conversion of an int to uint8_t (the failed read -1 becomes 255)
ToUint8(x) == x % 256

\* Masks of the status register RESPONSE_0 (Si115X.h): counter in the low
\* four bits, error flag in bit 4.
CMD_CTR == 15
CMD_ERR == 16

\* Opcode tags of the parameter commands.
PARAM_SET_TAG   == 128   \* 0B10 << 6
PARAM_QUERY_TAG == 64    \* 0B01 << 6

----------------------------------------------------------------------------
(* The device                                                              *)

\* Byte the device presents in RESPONSE_0.
StatusByte == ctr + (IF err THEN CMD_ERR ELSE 0)

\* Outcomes of read_register on a register holding byte b: the byte, or -1
\* when Wire.available() is false.
ReadRegister(b) == {b, -1}

\* Slot of the parameter table addressed by a command byte.
SlotOf(cmd) == cmd % 64
TagOf(cmd)  == cmd \div 64

\* The device finishes the pending command: a write-tagged command stores the
\* staged value, a read-tagged command loads the result register, and the
\* counter advances modulo 16.
DeviceFinish ==
  /\ pending # <<>>
  /\ ctr' = (ctr + 1) % 16
  /\ \E e \in {err, FALSE} : err' = e
  /\ pending' = <<>>
  /\ param' = IF TagOf(pending[1]) = 2 /\ SlotOf(pending[1]) \in DOMAIN param
                THEN [param EXCEPT ![SlotOf(pending[1])] = hostin0]
                ELSE param
  /\ response1' = IF TagOf(pending[1]) = 1 /\ SlotOf(pending[1]) \in DOMAIN param
                    THEN param[SlotOf(pending[1])]
                    ELSE response1
  /\ UNCHANGED <<hostin0>>
  /\ UNCHANGED <<callVars, scVars, psVars, roVars>>
  /\ UNCHANGED <<reads, nCmdWrites, assigned, prev, bus, iters, clean>>

\* The device rejects the pending command: CMD_ERR is set and the counter
\* field carries the error code.
DeviceError ==
  /\ pending # <<>>
  /\ err' = TRUE
  /\ \E e \in ErrCodes : ctr' = e
  /\ pending' = <<>>
  /\ clean' = FALSE
  /\ UNCHANGED <<hostin0, param, response1>>
  /\ UNCHANGED <<callVars, scVars, psVars, roVars>>
  /\ UNCHANGED <<reads, nCmdWrites, assigned, prev, bus, iters>>

----------------------------------------------------------------------------
(* Call and return                                                         *)

ClearLocals ==
  /\ initial_read' = 0 /\ initial_cmd_ctr' = 0 /\ i' = 0
  /\ response' = 0 /\ cmd_ctr' = 0
  /\ cmmnd_ctr' = 0 /\ r' = 0 /\ result' = -1
  /\ data' = <<>>
  /\ reads' = <<>> /\ nCmdWrites' = 0
  /\ bus' = <<>> /\ iters' = 0

\* The caller takes the returned value; the locals of the call are gone.
Return ==
  /\ pc = "done"
  /\ pc' = "idle"
  /\ op' = "none"
  /\ ret' = 0
  /\ prev' = <<op, loc, val>>
  /\ code' = 0 /\ force' = FALSE /\ loc' = 0 /\ val' = 0
  /\ ClearLocals
  /\ \E g \in Garbage : reading' = [ok |-> g, ir |-> g, vis |-> g]
  /\ assigned' = {}
  /\ UNCHANGED <<devVars, clean>>

----------------------------------------------------------------------------
(* send_command                                                            *)

\* Si115X.cpp:146: the counter increased, or went back to 0.
CounterAdvancedNoWrap(c, c0) == c > c0
CounterAdvanced(c, c0) == c > c0 \/ (c0 = 15 /\ c = 0)

\* Si115X.cpp:129: a pending error ends the call unless force is set.
InitialAbortNever(ir, f) == FALSE
InitialAbortIgnoringForce(ir, f) == BitAnd(ir, CMD_ERR) # 0
InitialAbort(ir, f) == BitAnd(ir, CMD_ERR) # 0 /\ ~f

\* Si115X.cpp:130: code of an error found on the initial read.
PreexistingErrorCodeNoOffset(ic) == ic * (-1)
PreexistingErrorCode(ic) == (ic + 1) * (-1)

\* Si115X.cpp:144: code of an error found while polling.
InFlightErrorCodeOffByOne(cc) == cc + 2
InFlightErrorCode(cc) == cc + 1

\* Si115X.cpp:143, 146: the error test comes first in the polling loop; a
\* response with CMD_ERR set is an error whatever its counter shows.
PollIsErrorUnlessAdvanced(rsp, cc, ic) ==
  BitAnd(rsp, CMD_ERR) # 0 /\ ~CounterAdvanced(cc, ic)
PollIsError(rsp, cc, ic) == BitAnd(rsp, CMD_ERR) # 0

\* Si115X.cpp:139: condition of the polling loop.
RetryLeftInclusive(n) == n <= MAX_RETRIES
RetryLeft(n) == n < MAX_RETRIES

\* Si115X.cpp:150: value returned when the budget is used up.
TIMEOUT_CODE == 17

CallSendCommand ==
  /\ pc = "idle"
  /\ \E c \in Codes, f \in BOOLEAN : code' = c /\ force' = f
  /\ op' = "send_command"
  /\ pc' = "sc_initial_read"
  /\ clean' = TRUE
  /\ UNCHANGED <<loc, val, ret, devVars, scVars, psVars, roVars>>
  /\ UNCHANGED <<reads, nCmdWrites, assigned, prev, bus, iters>>

\* Si115X.cpp:126-130: read RESPONSE_0; a pending error ends the call
\* unless force is set.
SendCommandInitialRead ==
  /\ pc = "sc_initial_read"
  /\ \E v \in ReadRegister(StatusByte) :
       LET ir == ToUint8(v)
           ic == BitAnd(ir, CMD_CTR)
       IN  /\ initial_read' = ir
           /\ initial_cmd_ctr' = ic
           /\ reads' = Append(reads, v)
           /\ clean' = (clean /\ v # -1)
           /\ IF InitialAbort(ir, force)
                THEN /\ ret' = PreexistingErrorCode(ic)
                     /\ pc' = "done"
                ELSE /\ ret' = ret
                     /\ pc' = "sc_write"
  /\ UNCHANGED <<op, code, force, loc, val, i, response, cmd_ctr>>
  /\ UNCHANGED <<devVars, psVars, roVars>>
  /\ UNCHANGED <<nCmdWrites, assigned, prev, bus, iters>>

\* Si115X.cpp:132-135: write the command code to the COMMAND register.
SendCommandWrite ==
  /\ pc = "sc_write"
  /\ pending' = <<code>>
  /\ nCmdWrites' = nCmdWrites + 1
  /\ i' = 0
  /\ pc' = "sc_poll"
  /\ UNCHANGED <<ctr, err, hostin0, param, response1>>
  /\ UNCHANGED <<op, code, force, loc, val, ret>>
  /\ UNCHANGED <<initial_read, initial_cmd_ctr, response, cmd_ctr>>
  /\ UNCHANGED <<psVars, roVars>>
  /\ UNCHANGED <<reads, assigned, prev, bus, iters, clean>>

\* Si115X.cpp:139-150: one iteration of the polling loop, and the return of
\* 17 when the iteration was the last one of the budget.
SendCommandPoll ==
  /\ pc = "sc_poll"
  /\ RetryLeft(i)
  /\ \E v \in ReadRegister(StatusByte) :
       LET rsp == ToUint8(v)
           cc  == BitAnd(rsp, CMD_CTR)
       IN  /\ response' = rsp
           /\ cmd_ctr' = cc
           /\ reads' = Append(reads, v)
           /\ clean' = (clean /\ v # -1)
           /\ IF PollIsError(rsp, cc, initial_cmd_ctr)
                THEN /\ ret' = InFlightErrorCode(cc)
                     /\ pc' = "done"
                     /\ i' = i
                ELSE IF CounterAdvanced(cc, initial_cmd_ctr)
                  THEN /\ ret' = 0
                       /\ pc' = "done"
                       /\ i' = i
                  ELSE /\ i' = i + 1
                       /\ IF RetryLeft(i + 1)
                            THEN ret' = ret /\ pc' = "sc_poll"
                            ELSE ret' = TIMEOUT_CODE /\ pc' = "done"
  /\ UNCHANGED <<op, code, force, loc, val, initial_read, initial_cmd_ctr>>
  /\ UNCHANGED <<devVars, psVars, roVars>>
  /\ UNCHANGED <<nCmdWrites, assigned, prev, bus, iters>>

----------------------------------------------------------------------------
(* Properties of send_command                                              *)

SendCommandDone == pc = "done" /\ op = "send_command"

\* What a status read showed, judged on the byte the bus delivered.
PollShowsErr(v) == v >= 0 /\ (v \div 16) % 2 = 1
PollShowsAdvance(v, v0) ==
  /\ v >= 0 /\ v0 >= 0
  /\ \/ v % 16 > v0 % 16
     \/ (v0 % 16 = 15 /\ v % 16 = 0)

\* The initial status read, the polls and the last poll of the running call.
Raw0 == reads[1]
Polls == Len(reads) - 1
HasPoll == Len(reads) >= 2
LastPoll == reads[Len(reads)]
\* every poll showed the byte of the initial read
Quiet == \A k \in 2..Len(reads) : reads[k] = reads[1]
\* some poll showed CMD_ERR, or a counter past the pre-command value
PollHit ==
  \E k \in 2..Len(reads) :
     PollShowsErr(reads[k]) \/ PollShowsAdvance(reads[k], reads[1])

\* C1: when the initial status read shows counter c (0..15) with CMD_ERR
\* clear and the poll that ends the call shows the counter advanced by one
\* modulo 16 with CMD_ERR clear, send_command returns 0, whatever force is;
\* this includes c = 15 followed by a polled counter of 0.
C1_AdvanceByOneIsSuccess ==
  (SendCommandDone /\ HasPoll /\ Raw0 \in 0..15
     /\ LastPoll = (Raw0 + 1) % 16) => ret = 0

C1_Witness ==
  SendCommandDone /\ HasPoll /\ Raw0 = 15 /\ LastPoll = 0 /\ ret = 0
  /\ nCmdWrites = 1

\* C2: when the initial status read shows CMD_ERR set and force is false,
\* send_command returns -(c + 1) < 0, c being the counter field of that read,
\* without writing the command register; the initial read is the only bus
\* transaction of the call.
C2_PreexistingErrorAborts ==
  (SendCommandDone /\ ~force /\ Raw0 >= 0 /\ PollShowsErr(Raw0)) =>
     /\ ret = -((Raw0 % 16) + 1)
     /\ ret < 0
     /\ nCmdWrites = 0
     /\ Len(reads) = 1

C2_Witness ==
  SendCommandDone /\ ~force /\ Raw0 = 16 + 15 /\ ret = -16 /\ nCmdWrites = 0

\* C3: when every status read of the call shows the same counter with CMD_ERR
\* clear, send_command writes the command once and returns 17 after exactly
\* MAX_RETRIES polls; no poll is made once MAX_RETRIES polls are done.
C3_TimeoutAfterExactBudget ==
  /\ (SendCommandDone /\ nCmdWrites = 1 /\ Raw0 \in 0..15 /\ Quiet) =>
        (ret = 17 /\ Polls = MAX_RETRIES)
  /\ (op = "send_command" /\ pc = "sc_poll") => Polls < MAX_RETRIES
  /\ op = "send_command" => Polls <= MAX_RETRIES

C3_Witness ==
  SendCommandDone /\ nCmdWrites = 1 /\ Raw0 \in 0..15 /\ Quiet
  /\ ret = 17 /\ Polls = MAX_RETRIES

\* C4 (as stated): whenever send_command returns a positive code 1..16,
\* CMD_ERR was clear in the status read taken before the command write,
\* for force = true as well.
C4_PositiveImpliesInitiallyClear ==
  (SendCommandDone /\ ret \in 1..16) => (Raw0 >= 0 /\ ~PollShowsErr(Raw0))

\* C4 (amended): whenever send_command called with force = false returns a
\* positive code 1..16, CMD_ERR was clear in the status read taken before
\* the command write.
C4_PositiveUnforcedImpliesInitiallyClear ==
  (SendCommandDone /\ ret \in 1..16 /\ ~force) =>
     (Raw0 >= 0 /\ ~PollShowsErr(Raw0))

C4_Witness ==
  SendCommandDone /\ ret \in 1..16 /\ ~force /\ Raw0 \in 0..15
  /\ HasPoll /\ PollShowsErr(LastPoll)

\* C5: send_command returns a value in -16..-1, 0, 1..16 or 17; it returns 17
\* only after MAX_RETRIES polls none of which showed CMD_ERR or a counter
\* past the pre-command value (15 -> 0 included), and every other path
\* returns a value below 17.
C5_TimeoutCodeDistinct ==
  SendCommandDone =>
     /\ ret \in (-16)..17
     /\ ret = 17 => (Polls = MAX_RETRIES /\ ~PollHit
                     /\ \A k \in 2..Len(reads) : reads[k] >= 0)
     /\ (nCmdWrites = 0 \/ PollHit \/ LastPoll = -1) => ret # 17

C5_Witness ==
  SendCommandDone /\ ret = 17 /\ Polls = MAX_RETRIES /\ ~PollHit

\* C6 (as stated): when the status read that decides the call failed (-1),
\* the value send_command returns is none of the values it returns for a
\* real status byte.
DecidingReadFailed == LastPoll = -1

C6_BusFailureNotADeviceCode ==
  (SendCommandDone /\ DecidingReadFailed) => ret \notin (-16)..17

\* C13 (as stated, for serialized calls): when send_command returns 0 the
\* device has advanced CMD_CTR after the command write of this call.  Only
\* this call writes COMMAND and the device empties it when it advances, so
\* the command of the call is then no longer waiting in the register.
C13_SuccessMeansOwnCommandProcessed ==
  (SendCommandDone /\ ret = 0) => pending = <<>>

\* C14: send_command writes the COMMAND register at most once, after the
\* initial status read and before the first poll, never while polling: once
\* when force is set or the initial read shows CMD_ERR clear, and not at all
\* otherwise (a failed initial read is decoded as 0xFF, CMD_ERR set).
ErrAtInitialRead == Raw0 = -1 \/ PollShowsErr(Raw0)

C14_CommandWrittenAtMostOnce ==
  op = "send_command" =>
     /\ nCmdWrites \in {0, 1}
     /\ pc = "sc_initial_read" => (nCmdWrites = 0 /\ reads = <<>>)
     /\ pc = "sc_write" => (nCmdWrites = 0 /\ Len(reads) = 1)
     /\ pc = "sc_poll" => nCmdWrites = 1
     /\ HasPoll => nCmdWrites = 1
     /\ nCmdWrites = 1 => (Len(reads) >= 1 /\ (force \/ ~ErrAtInitialRead))
     /\ pc = "done" =>
          nCmdWrites = (IF force \/ ~ErrAtInitialRead THEN 1 ELSE 0)

C14_Witness ==
  SendCommandDone /\ force /\ PollShowsErr(Raw0) /\ nCmdWrites = 1
  /\ Polls = MAX_RETRIES

\* C15: every call of send_command returns; it makes at most
\* 1 + MAX_RETRIES status reads, and a poll that shows CMD_ERR or a counter
\* past the pre-command value is the last bus transaction of the call.
C15_BoundedReads ==
  op = "send_command" =>
     /\ Len(reads) <= 1 + MAX_RETRIES
     /\ \A k \in 2..Len(reads) :
           (PollShowsErr(reads[k]) \/ PollShowsAdvance(reads[k], reads[1]))
              => (k = Len(reads) /\ pc = "done" /\ nCmdWrites = 1)

C15_Terminates ==
  /\ []C15_BoundedReads
  /\ (op = "send_command") ~> (pc = "done")

\* a peer that never answers, with force set
C15_Witness ==
  SendCommandDone /\ force /\ reads = <<-1, -1>> /\ ret = 16

\* C18: in the polling loop the error flag goes before counter progress: a
\* poll with CMD_ERR set returns its counter field + 1, also when that
\* counter is past the pre-command value; 0 is returned only for a poll with
\* CMD_ERR clear whose counter is greater than the pre-command counter, or
\* is 0 when the pre-command counter is 15.
C18_ErrorBeforeProgress ==
  SendCommandDone =>
     /\ (HasPoll /\ PollShowsErr(LastPoll)) => ret = (LastPoll % 16) + 1
     /\ ret = 0 =>
          /\ HasPoll /\ LastPoll >= 0 /\ ~PollShowsErr(LastPoll)
          /\ \/ LastPoll % 16 > initial_cmd_ctr
             \/ (initial_cmd_ctr = 15 /\ LastPoll % 16 = 0)

C18_Witness ==
  SendCommandDone /\ HasPoll /\ Raw0 = 0 /\ LastPoll = 16 + 3 /\ ret = 4

----------------------------------------------------------------------------
(* read_output                                                             *)

CallReadOutput ==
  /\ pc = "idle"
  /\ op' = "read_output"
  /\ pc' = "ro_read"
  /\ clean' = TRUE
  /\ UNCHANGED <<code, force, loc, val, ret, devVars, scVars, psVars, roVars>>
  /\ UNCHANGED <<reads, nCmdWrites, assigned, prev, bus, iters>>

\* Si115X.cpp:188-191: the four reads of HOSTOUT_0..HOSTOUT_3, in order.
ReadOutputRead ==
  /\ pc = "ro_read"
  /\ Len(data) < 4
  /\ \E b \in Bytes : \E v \in ReadRegister(b) : data' = Append(data, v)
  /\ UNCHANGED <<pc, op, code, force, loc, val, ret>>
  /\ UNCHANGED <<devVars, scVars, psVars, reading>>
  /\ UNCHANGED <<reads, nCmdWrites, assigned, prev, bus, iters, clean>>

\* Si115X.cpp:192: test for a failed byte read.
AnyReadFailedButLast(d) == d[1] < 0 \/ d[2] < 0 \/ d[3] < 0
AnyReadFailed(d) == d[1] < 0 \/ d[2] < 0 \/ d[3] < 0 \/ d[4] < 0

\* Si115X.cpp:197-199, 201-203: a channel from its high and low byte.
ChannelLittleEndian(hi, lo) == lo * 256 + hi
Channel(hi, lo) == hi * 256 + lo

\* Si115X.cpp:192-205: mark the reading, and on success rebuild the channels.
ReadOutputDecode ==
  /\ pc = "ro_read"
  /\ Len(data) = 4
  /\ IF AnyReadFailed(data)
       THEN /\ reading' = [reading EXCEPT !.ok = -1]
            /\ assigned' = {"ok"}
       ELSE /\ reading' = [ok  |-> 0,
                           ir  |-> Channel(data[1], data[2]),
                           vis |-> Channel(data[3], data[4])]
            /\ assigned' = {"ok", "ir", "vis"}
  /\ pc' = "done"
  /\ ret' = 0
  /\ UNCHANGED <<op, code, force, loc, val>>
  /\ UNCHANGED <<devVars, scVars, psVars, data>>
  /\ UNCHANGED <<reads, nCmdWrites, prev, bus, iters, clean>>

----------------------------------------------------------------------------
(* Properties of read_output                                               *)

ReadOutputDone == pc = "done" /\ op = "read_output"
FailedReads == {k \in 1..4 : data[k] = -1}

\* C9: read_output sets ok = -1 exactly when at least one of the four byte
\* reads failed, whichever reads those are, and then assigns neither ir nor
\* vis: both keep the indeterminate content they had.
C9_FailedIffAnyReadFailed ==
  ReadOutputDone =>
     /\ (reading.ok = -1) <=> (FailedReads # {})
     /\ FailedReads # {} =>
          /\ assigned = {"ok"}
          /\ reading.ir \in Garbage
          /\ reading.vis \in Garbage

C9_Witness ==
  ReadOutputDone /\ FailedReads = {4} /\ reading.ok = -1 /\ assigned = {"ok"}

\* C10: when the four byte reads succeed with b0..b3, read_output sets
\* ok = 0, ir = b0 * 256 + b1 and vis = b2 * 256 + b3, both in 0..65535.
C10_BigEndianChannels ==
  (ReadOutputDone /\ FailedReads = {}) =>
     /\ reading.ok = 0
     /\ reading.ir = data[1] * 256 + data[2]
     /\ reading.vis = data[3] * 256 + data[4]
     /\ reading.ir \in 0..65535
     /\ reading.vis \in 0..65535
     /\ assigned = {"ok", "ir", "vis"}

C10_Witness ==
  ReadOutputDone /\ data = <<1, 255, 255, 0>>
  /\ reading = [ok |-> 0, ir |-> 511, vis |-> 65280]

----------------------------------------------------------------------------
(* param_set and param_query                                               *)

\* Si115X.cpp:77, 98: condition under which the do-while loop repeats.
LoopAgainWhileDifferent(rd, snapshot) == rd # snapshot
LoopAgain(rd, snapshot) == rd > snapshot

\* Si115X.cpp:73, 93: command bytes of the parameter commands.
ParamSetCommandByteShift5(l) == ToUint8(BitOr(l, 64))
ParamSetCommandByte(l)   == ToUint8(BitOr(l, PARAM_SET_TAG))
ParamQueryCommandByte(l) == ToUint8(BitOr(l, PARAM_QUERY_TAG))

\* Si115X.cpp:65, 77: where the do-while loop of param_set starts over.
ParamSetRetryAtCommand == "ps_command"
ParamSetRetryTarget == "ps_snapshot"

\* Si115X.cpp:84, 100-102: the int that param_query returns for the outcome
\* of its read of RESPONSE_1.
QueryReturnAsByte(v) == ToUint8(v)
QueryReturn(v) == v

\* A status read seen by a call of the parameter protocol keeps the run
\* clean when it delivers a counter with CMD_ERR clear.
CleanRead(v) == v \in 0..15

\* The bus transactions of the running call, the latest BusWindow of them.
Log(tx) == IF Len(bus) < BusWindow THEN Append(bus, tx)
           ELSE Append(Tail(bus), tx)

CallParamSet ==
  /\ pc = "idle"
  /\ \E l \in Locs, v \in Vals : loc' = l /\ val' = v
  /\ op' = "param_set"
  /\ pc' = "ps_snapshot"
  /\ clean' = TRUE
  /\ UNCHANGED <<code, force, ret, devVars, scVars, psVars, roVars>>
  /\ UNCHANGED <<reads, nCmdWrites, assigned, prev, bus, iters>>

\* param_set called with any location a uint8_t can hold
CallParamSetAnyLocation ==
  /\ pc = "idle"
  /\ \E l \in AllLocations, v \in Vals : loc' = l /\ val' = v
  /\ op' = "param_set"
  /\ pc' = "ps_snapshot"
  /\ clean' = TRUE
  /\ UNCHANGED <<code, force, ret, devVars, scVars, psVars, roVars>>
  /\ UNCHANGED <<reads, nCmdWrites, assigned, prev, bus, iters>>

\* Si115X.cpp:66: snapshot of RESPONSE_0.
ParamSetSnapshot ==
  /\ pc = "ps_snapshot"
  /\ \E v \in ReadRegister(StatusByte) :
       /\ cmmnd_ctr' = v
       /\ bus' = Log(<<"r", "RESPONSE_0", v>>)
       /\ clean' = (clean /\ CleanRead(v))
  /\ pc' = "ps_stage"
  /\ UNCHANGED <<op, code, force, loc, val, ret, r, result>>
  /\ UNCHANGED <<devVars, scVars, roVars>>
  /\ UNCHANGED <<reads, nCmdWrites, assigned, prev, iters>>

\* Si115X.cpp:68-70: stage the value in HOSTIN_0.
ParamSetStage ==
  /\ pc = "ps_stage"
  /\ hostin0' = val
  /\ bus' = Log(<<"w", "HOSTIN_0", val>>)
  /\ pc' = "ps_command"
  /\ UNCHANGED <<ctr, err, pending, param, response1>>
  /\ UNCHANGED <<op, code, force, loc, val, ret>>
  /\ UNCHANGED <<scVars, psVars, roVars>>
  /\ UNCHANGED <<reads, nCmdWrites, assigned, prev, iters, clean>>

\* Si115X.cpp:72-74: write the write-tagged location to COMMAND.
ParamSetCommand ==
  /\ pc = "ps_command"
  /\ pending' = <<ParamSetCommandByte(loc)>>
  /\ bus' = Log(<<"w", "COMMAND", ParamSetCommandByte(loc)>>)
  /\ clean' = (clean /\ pending = <<>>)
  /\ pc' = "ps_check"
  /\ UNCHANGED <<ctr, err, hostin0, param, response1>>
  /\ UNCHANGED <<op, code, force, loc, val, ret>>
  /\ UNCHANGED <<scVars, psVars, roVars>>
  /\ UNCHANGED <<reads, nCmdWrites, assigned, prev, iters>>

\* Si115X.cpp:76-78: read RESPONSE_0 again and test the loop condition; the
\* iteration that ends here is counted when count is set.
ParamSetIteration(count) ==
  /\ pc = "ps_check"
  /\ \E v \in ReadRegister(StatusByte) :
       /\ r' = v
       /\ bus' = Log(<<"r", "RESPONSE_0", v>>)
       /\ clean' = (clean /\ CleanRead(v))
       /\ IF LoopAgain(v, cmmnd_ctr)
            THEN pc' = ParamSetRetryTarget /\ ret' = ret
            ELSE pc' = "done" /\ ret' = 0
  /\ UNCHANGED <<op, code, force, loc, val, cmmnd_ctr, result>>
  /\ UNCHANGED <<devVars, scVars, roVars>>
  /\ iters' = (IF count THEN iters + 1 ELSE iters)
  /\ UNCHANGED <<reads, nCmdWrites, assigned, prev>>

ParamSetCheck == ParamSetIteration(FALSE)

CallParamQuery ==
  /\ pc = "idle"
  /\ \E l \in Locs : loc' = l
  /\ op' = "param_query"
  /\ pc' = "pq_snapshot"
  /\ UNCHANGED <<code, force, val, ret, devVars, scVars, psVars, roVars>>
  /\ UNCHANGED <<obsVars>>

\* param_query called with any location a uint8_t can hold
CallParamQueryAnyLocation ==
  /\ pc = "idle"
  /\ \E l \in AllLocations : loc' = l
  /\ op' = "param_query"
  /\ pc' = "pq_snapshot"
  /\ UNCHANGED <<code, force, val, ret, devVars, scVars, psVars, roVars>>
  /\ UNCHANGED <<obsVars>>

\* Si115X.cpp:90: snapshot of RESPONSE_0.
ParamQuerySnapshot ==
  /\ pc = "pq_snapshot"
  /\ \E v \in ReadRegister(StatusByte) :
       /\ cmmnd_ctr' = v
       /\ bus' = Log(<<"r", "RESPONSE_0", v>>)
       /\ clean' = (clean /\ CleanRead(v))
  /\ pc' = "pq_command"
  /\ UNCHANGED <<op, code, force, loc, val, ret, r, result>>
  /\ UNCHANGED <<devVars, scVars, roVars>>
  /\ UNCHANGED <<reads, nCmdWrites, assigned, prev, iters>>

\* Si115X.cpp:92-95: write the read-tagged location to COMMAND.
ParamQueryCommand ==
  /\ pc = "pq_command"
  /\ pending' = <<ParamQueryCommandByte(loc)>>
  /\ bus' = Log(<<"w", "COMMAND", ParamQueryCommandByte(loc)>>)
  /\ clean' = (clean /\ pending = <<>>)
  /\ pc' = "pq_check"
  /\ UNCHANGED <<ctr, err, hostin0, param, response1>>
  /\ UNCHANGED <<op, code, force, loc, val, ret>>
  /\ UNCHANGED <<scVars, psVars, roVars>>
  /\ UNCHANGED <<reads, nCmdWrites, assigned, prev, iters>>

\* Si115X.cpp:97-98: read RESPONSE_0 again and test the loop condition; the
\* iteration that ends here is counted when count is set.
ParamQueryIteration(count) ==
  /\ pc = "pq_check"
  /\ \E v \in ReadRegister(StatusByte) :
       /\ r' = v
       /\ bus' = Log(<<"r", "RESPONSE_0", v>>)
       /\ clean' = (clean /\ CleanRead(v))
       /\ IF LoopAgain(v, cmmnd_ctr)
            THEN pc' = "pq_snapshot"
            ELSE pc' = "pq_result"
  /\ UNCHANGED <<op, code, force, loc, val, ret, cmmnd_ctr, result>>
  /\ UNCHANGED <<devVars, scVars, roVars>>
  /\ iters' = (IF count THEN iters + 1 ELSE iters)
  /\ UNCHANGED <<reads, nCmdWrites, assigned, prev>>

ParamQueryCheck == ParamQueryIteration(FALSE)

\* Si115X.cpp:100-102: read RESPONSE_1 and return it.
ParamQueryResult ==
  /\ pc = "pq_result"
  /\ \E v \in ReadRegister(response1) :
       /\ result' = QueryReturn(v)
       /\ bus' = Log(<<"r", "RESPONSE_1", v>>)
       /\ ret' = QueryReturn(v)
       /\ clean' = (clean /\ v # -1)
  /\ pc' = "done"
  /\ UNCHANGED <<op, code, force, loc, val, cmmnd_ctr, r>>
  /\ UNCHANGED <<devVars, scVars, roVars>>
  /\ UNCHANGED <<reads, nCmdWrites, assigned, prev, iters>>

----------------------------------------------------------------------------
(* Properties of param_set and param_query                                 *)

ParamSetDone == pc = "done" /\ op = "param_set"
ParamQueryDone == pc = "done" /\ op = "param_query"

\* C7 (as stated): param_set returns only at the end of an iteration whose
\* status read after the commit write is strictly greater than the snapshot
\* taken at the start of that iteration.
C7_ReturnsOnlyOnIncrease ==
  ParamSetDone => r > cmmnd_ctr

\* C8 (as stated): param_set(location, value) followed by
\* param_query(location) returns value, on a device that takes every command
\* it is given, never shows CMD_ERR and always answers on the bus, whether
\* or not it has finished a command before the status read that follows.
C8_RoundTrip ==
  (ParamQueryDone /\ prev[1] = "param_set" /\ prev[2] = loc /\ clean) =>
     result = prev[3]

\* C11: param_query reads RESPONSE_1 exactly once, as the last bus
\* transaction of the call and after an iteration whose loop test failed, and
\* returns the outcome of that read unchanged: the byte, or -1 when the read
\* failed, whatever the status reads of the loop delivered.
C11_QueryReturnsResultRead ==
  op = "param_query" =>
     /\ \A k \in 1..Len(bus) :
           bus[k][2] = "RESPONSE_1" => (k = Len(bus) /\ pc = "done")
     /\ pc = "done" =>
          LET n == Len(bus)
          IN  /\ n >= 4
              /\ bus[n] = <<"r", "RESPONSE_1", ret>>
              /\ result = ret
              /\ ret \in (-1)..255
              /\ bus[n - 1] = <<"r", "RESPONSE_0", r>>
              /\ bus[n - 3] = <<"r", "RESPONSE_0", cmmnd_ctr>>
              /\ ~(r > cmmnd_ctr)

C11_Witness ==
  ParamQueryDone /\ r = -1 /\ ret = 255 /\ bus[Len(bus)][3] = 255

\* C16: every iteration of param_set, the first one and every retry, reads
\* RESPONSE_0 as snapshot, writes the value to HOSTIN_0, writes the
\* write-tagged location to COMMAND and reads RESPONSE_0 again, in this
\* order; the loop test compares the reads of the same iteration.
SnapshotAt(k) == k >= 1 /\ bus[k] = <<"r", "RESPONSE_0", cmmnd_ctr>>
StageAt(k)    == k >= 1 /\ bus[k] = <<"w", "HOSTIN_0", val>>
CommitAt(k)   == k >= 1 /\ bus[k] = <<"w", "COMMAND", 128 + loc>>
RereadAt(k)   == k >= 1 /\ bus[k] = <<"r", "RESPONSE_0", r>>

C16_FullIterationInOrder ==
  op = "param_set" =>
     LET n == Len(bus)
     IN  /\ pc = "ps_snapshot" => (n = 0 \/ RereadAt(n))
         /\ pc = "ps_stage" => SnapshotAt(n)
         /\ pc = "ps_command" => (StageAt(n) /\ SnapshotAt(n - 1))
         /\ pc = "ps_check" =>
              (CommitAt(n) /\ StageAt(n - 1) /\ SnapshotAt(n - 2))
         /\ (pc \in {"ps_snapshot", "done"} /\ n > 0) =>
              /\ RereadAt(n) /\ CommitAt(n - 1) /\ StageAt(n - 2)
              /\ SnapshotAt(n - 3)
              /\ (pc = "ps_snapshot") <=> (r > cmmnd_ctr)
         /\ pc = "done" => n > 0
         /\ \A k \in 2..n :
              /\ bus[k][2] = "COMMAND" => bus[k - 1][2] = "HOSTIN_0"
              /\ bus[k][2] = "HOSTIN_0" => bus[k - 1][2] = "RESPONSE_0"

\* a retry, after the re-read of the first iteration, has taken a new
\* snapshot, staged the value and written the command again
C16_Witness ==
  LET n == Len(bus)
  IN  /\ op = "param_set" /\ pc = "ps_check" /\ n >= 4
      /\ bus[n - 3] = <<"r", "RESPONSE_0", 1>>
      /\ SnapshotAt(n - 2) /\ StageAt(n - 1) /\ CommitAt(n)
      /\ loc = 63 /\ val = 255

\* The byte of the command write that the running call has just made.
CommandWritten ==
  /\ pc \in {"ps_check", "pq_check"}
  /\ Len(bus) >= 1 /\ bus[Len(bus)][2] = "COMMAND"
CommandByte == bus[Len(bus)][3]

\* C12 (as stated): for every location 0..255 the command byte of param_set
\* has 0b10 in its top two bits and the command byte of param_query has 0b01.
C12_TagInTopBitsAnyLocation ==
  CommandWritten =>
     /\ op = "param_set" => CommandByte \div 64 = 2
     /\ op = "param_query" => CommandByte \div 64 = 1

\* C12 (amended): for every location 0..63 the command byte of param_set is
\* 0b10 followed by the six bits of the location and the command byte of
\* param_query is 0b01 followed by them, so the bytes of the two commands
\* differ for all such locations.
C12_TagInTopBitsValidLocation ==
  (CommandWritten /\ loc \in 0..63) =>
     /\ op = "param_set" =>
          (CommandByte \div 64 = 2 /\ CommandByte % 64 = loc)
     /\ op = "param_query" =>
          (CommandByte \div 64 = 1 /\ CommandByte % 64 = loc)

C12_Witness ==
  CommandWritten /\ op = "param_set" /\ loc = 63 /\ CommandByte = 191

----------------------------------------------------------------------------
(* The parameter calls against a responsive device: the bus answers every  *)
(* status read and the device has finished the command before the status   *)
(* read that follows the command write.                                    *)

ResponsiveParamSetSnapshot == ParamSetSnapshot /\ cmmnd_ctr' # -1

ResponsiveParamSetCheck ==
  /\ pending = <<>>
  /\ iters < IterCap
  /\ ParamSetIteration(TRUE)
  /\ r' # -1

ResponsiveParamQuerySnapshot == ParamQuerySnapshot /\ cmmnd_ctr' # -1

ResponsiveParamQueryCheck ==
  /\ pending = <<>>
  /\ iters < IterCap
  /\ ParamQueryIteration(TRUE)
  /\ r' # -1

\* C17: against a responsive device that advances CMD_CTR modulo 16 for
\* every command and never sets CMD_ERR, param_set and param_query return,
\* from every starting counter 0..15, after at most 16 loop iterations.
InParamCall == op \in {"param_set", "param_query"}

C17_Terminates ==
  /\ [](InParamCall => iters <= 16)
  /\ InParamCall ~> (pc = "done")

\* starting at counter 0, the call returns when the counter wraps
C17_Witness ==
  ParamSetDone /\ iters = 16 /\ cmmnd_ctr = 15 /\ r = 0 /\ prev[1] = "none"

----------------------------------------------------------------------------
(* Specifications                                                          *)

Init ==
  /\ ctr \in 0..15
  /\ err \in BOOLEAN
  /\ pending = <<>>
  /\ hostin0 = 0
  /\ param = [s \in Locs |-> 0]
  /\ response1 = 0
  /\ pc = "idle" /\ op = "none"
  /\ code = 0 /\ force = FALSE /\ loc = 0 /\ val = 0
  /\ ret = 0
  /\ initial_read = 0 /\ initial_cmd_ctr = 0 /\ i = 0
  /\ response = 0 /\ cmd_ctr = 0
  /\ cmmnd_ctr = 0 /\ r = 0 /\ result = -1
  /\ data = <<>>
  /\ \E g \in Garbage : reading = [ok |-> g, ir |-> g, vis |-> g]
  /\ reads = <<>> /\ nCmdWrites = 0
  /\ bus = <<>> /\ iters = 0
  /\ assigned = {}
  /\ prev = <<"none", 0, 0>>
  /\ clean = TRUE

\* send_command against the device
NextCmd ==
  \/ CallSendCommand
  \/ SendCommandInitialRead
  \/ SendCommandWrite
  \/ SendCommandPoll
  \/ DeviceFinish
  \/ DeviceError
  \/ Return

SpecCmd == Init /\ [][NextCmd]_vars

\* send_command runs to its end once called: the caller is single-threaded
\* and each step of the function is taken when it is its turn.
SpecCmdFair ==
  /\ SpecCmd
  /\ WF_vars(SendCommandInitialRead)
  /\ WF_vars(SendCommandWrite)
  /\ WF_vars(SendCommandPoll)

\* read_output
NextOut ==
  \/ CallReadOutput
  \/ ReadOutputRead
  \/ ReadOutputDecode
  \/ Return

SpecOut == Init /\ [][NextOut]_vars

\* param_set and param_query against the device
NextParam ==
  \/ CallParamSet
  \/ ParamSetSnapshot
  \/ ParamSetStage
  \/ ParamSetCommand
  \/ ParamSetCheck
  \/ CallParamQuery
  \/ ParamQuerySnapshot
  \/ ParamQueryCommand
  \/ ParamQueryCheck
  \/ ParamQueryResult
  \/ DeviceFinish
  \/ Return

\* the parameter protocol starts on a device with no pending error
InitParam == Init /\ ~err

SpecParam == InitParam /\ [][NextParam]_vars

\* the parameter calls over every location, up to the end of the call
NextLoc ==
  \/ CallParamSetAnyLocation
  \/ ParamSetSnapshot
  \/ ParamSetStage
  \/ ParamSetCommand
  \/ ParamSetCheck
  \/ CallParamQueryAnyLocation
  \/ ParamQuerySnapshot
  \/ ParamQueryCommand
  \/ ParamQueryCheck
  \/ ParamQueryResult

SpecLoc == InitParam /\ [][NextLoc]_vars

\* param_set and param_query against a responsive device
NextResponsive ==
  \/ CallParamSet
  \/ ResponsiveParamSetSnapshot
  \/ ParamSetStage
  \/ ParamSetCommand
  \/ ResponsiveParamSetCheck
  \/ CallParamQuery
  \/ ResponsiveParamQuerySnapshot
  \/ ParamQueryCommand
  \/ ResponsiveParamQueryCheck
  \/ ParamQueryResult
  \/ DeviceFinish
  \/ Return

\* the driver runs each call to its end and the device finishes each command
SpecResponsive ==
  /\ InitParam
  /\ [][NextResponsive]_vars
  /\ WF_vars(ResponsiveParamSetSnapshot)
  /\ WF_vars(ParamSetStage)
  /\ WF_vars(ParamSetCommand)
  /\ WF_vars(ResponsiveParamSetCheck)
  /\ WF_vars(ResponsiveParamQuerySnapshot)
  /\ WF_vars(ParamQueryCommand)
  /\ WF_vars(ResponsiveParamQueryCheck)
  /\ WF_vars(ParamQueryResult)
  /\ WF_vars(DeviceFinish)

====
